---------------------------- MODULE Spec2Model ----------------------------
(***************************************************************************)
(* ExcisionFinder: allele-specific excision sites.                         *)
(*                                                                         *)
(* Two programs of the repository are modelled:                            *)
(*   - paper_scripts/ExcisionFinder_filt_by_score.py (pair mode), and      *)
(*   - manuscript_analyses/.../single_cut_targ_wtc_hg19.py (single cut).   *)
(* Their pure functions (targ_pair, haplotype_targetability, ...) are      *)
(* operators; each main() is a sequential state machine whose position is  *)
(* pc.  The variable program says which entry point a behaviour runs:      *)
(* a direct call of targ_pair, a direct call of haplotype_targetability,   *)
(* or one of the two main() functions.                                     *)
(***************************************************************************)
EXTENDS Integers, Sequences, FiniteSets, TLC

VARIABLES
    program,             \* which entry point this behaviour runs
    pc,                  \* position in that entry point
    annots,              \* the gene's rows of the annotation table, longest first
    coding_positions,    \* set of coding positions of the gene
    coding_exon_starts,  \* set of coding exon starts of the gene
    coding_exons,        \* the coding exons (start, stop) of the gene
    variant1,            \* targ_pair: first position
    variant2,            \* targ_pair: second position
    targetable,          \* targ_pair: returned value
    chrdf,               \* variant targetability table: a set of rows
    gens_hdf,            \* phased genotypes: position -> sample -> <<hap1, hap2>>
    position,            \* haplotype_targetability: position
    sample,              \* haplotype_targetability: sample
    cas_type,            \* haplotype_targetability: Cas variety
    targ_hap,            \* haplotype_targetability: returned value
    enough_hets,         \* main: samples with enough heterozygous positions
    targ_pairs_tuple,    \* main: targetable pairs of positions
    targ_haps,           \* main: one row per sample and heterozygous position
    finaltargcols,       \* main: the targ_<cas> columns written so far
    final_targ,          \* main: output table, sample -> row
    outfiles,            \* main: the lines appended to the side files
    stored,              \* main: whether the output table was written
    args,                \* single cut: the -s flag and <cas_list>
    targ_df,             \* single cut: variant targetability table
    gens,                \* single cut: the het rows of the BCF, pos -> sample -> gt
    het_vars_per_ind     \* single cut: sample -> het positions in coding exons

classifier_vars == <<variant1, variant2, targetable>>
resolver_vars   == <<position, sample, cas_type, targ_hap>>
table_vars      == <<chrdf, gens_hdf>>
gene_vars       == <<annots, coding_positions, coding_exon_starts,
                     coding_exons>>

run_vars        == <<enough_hets, targ_pairs_tuple, targ_haps, finaltargcols,
                     final_targ, outfiles, stored>>

single_vars     == <<args, targ_df, gens, het_vars_per_ind>>

vars == <<program, pc, gene_vars, classifier_vars, table_vars, resolver_vars,
          run_vars, single_vars>>

---------------------------------------------------------------------------
(* Bounds of the model.                                                    *)

\* Genomic coordinates of exons and of the positions given to targ_pair.
MaxCoord == 4

\* Largest number of exons of a transcript.
MaxExons == 2

Coords == 0..MaxCoord

\* A value a variable holds before the program assigns it.
None == "None"

---------------------------------------------------------------------------
(* Helpers standing for Python / pandas built-ins.                         *)

\* min() of a non-empty set of integers.
Min(S) == CHOOSE x \in S : \A y \in S : x <= y

\* max() of a non-empty set of integers.
Max(S) == CHOOSE x \in S : \A y \in S : x >= y

\* sorted(list(S)): the ascending sequence of the integers of S.
RECURSIVE sorted(_)
sorted(S) == IF S = {} THEN <<>> ELSE <<Min(S)>> \o sorted(S \ {Min(S)})

\* The set of the elements of a sequence.
Range(s) == {s[i] : i \in DOMAIN s}

\* Python's False read as an integer, which is what a comparison
\* `int >= False` does with it (bool is a subclass of int).
False_as_int == 0

---------------------------------------------------------------------------
(* Gene annotations (pair mode).                                           *)

\* The exon lists a transcript row may hold: 1..MaxExons exons [s, e] with
\* s <= e, in ascending order and disjoint, as the refGene table has them.
ExonLists ==
    {ex \in UNION {[1..n -> Coords \X Coords] : n \in 1..MaxExons} :
        /\ \A i \in DOMAIN ex : ex[i][1] <= ex[i][2]
        /\ \A i \in DOMAIN ex : i > 1 => ex[i-1][2] < ex[i][1]}

\* The rows of the annotation table: exonStarts, exonEnds, cdsStart, cdsEnd.
Transcripts ==
    {[exonStarts |-> [i \in DOMAIN ex |-> ex[i][1]],
      exonEnds   |-> [i \in DOMAIN ex |-> ex[i][2]],
      cdsStart   |-> c[1],
      cdsEnd     |-> c[2]] :
        ex \in ExonLists, c \in {d \in Coords \X Coords : d[1] <= d[2]}}

\* get_canonical: the first row of the gene in the table sorted by size,
\* or IndexError when the gene has no row.
get_canonical(gene_annots) ==
    IF Len(gene_annots) = 0
    THEN [raised |-> "IndexError"]
    ELSE [raised |-> None, transcript |-> gene_annots[1]]

\* get_coding_exons: the coding exon starts are the exon starts inside
\* [cdsStart, cdsEnd]; the coding positions are the whole exons
\* (start..stop, the sorted starts paired with the sorted stops) whose start
\* is a coding exon start.
get_coding_exons(t) ==
    LET exon_starts   == Range(t.exonStarts)
        exon_stops    == Range(t.exonEnds)
        coding_region == t.cdsStart..t.cdsEnd
        ce_starts     == exon_starts \cap coding_region
        start_hg19    == sorted(exon_starts)
        stop_hg19     == sorted(exon_stops)
        coding_df     == {i \in DOMAIN start_hg19 : start_hg19[i] \in ce_starts}
        coding_range  == UNION {start_hg19[i]..stop_hg19[i] : i \in coding_df}
        exon_status_df == [i \in DOMAIN start_hg19 |->
                              <<start_hg19[i], stop_hg19[i]>>]
        codingStatus(row) == row[1] \in ce_starts
    IN  [n_coding_exons |-> Cardinality(ce_starts),
         coding_positions |-> coding_range,
         coding_exon_starts |-> ce_starts,
         coding_exons |-> SelectSeq(exon_status_df, codingStatus)]

---------------------------------------------------------------------------
(* Variant-pair classifier.                                                *)

\* A slip that would take the last coding exon start after the variant.
next_exon_last(variant_position, starts) ==
    LET greater_than_var == {x \in starts : x > variant_position}
    IN  IF greater_than_var = {} THEN False_as_int ELSE Max(greater_than_var)

\* next_exon: start of the next coding exon after the variant, or False.
next_exon(variant_position, starts) ==
    LET greater_than_var == {x \in starts : x > variant_position}
    IN  IF greater_than_var = {} THEN False_as_int ELSE Min(greater_than_var)

\* A slip that would leave the positions in call order.
targ_pair_unsorted(v1, v2, positions, starts) ==
    IF v1 \in positions \/ v2 \in positions THEN TRUE
    ELSE v2 >= next_exon(v1, starts)

\* A slip that would leave out the test for coding positions.
targ_pair_no_coding(v1, v2, positions, starts) ==
    LET low_var  == Min({v1, v2})
        high_var == Max({v1, v2})
    IN  high_var >= next_exon(low_var, starts)

\* targ_pair: whether a pair of variant positions might disrupt an exon.
targ_pair(v1, v2, positions, starts) ==
    LET low_var  == Min({v1, v2})
        high_var == Max({v1, v2})
    IN  IF low_var \in positions \/ high_var \in positions THEN TRUE
        ELSE high_var >= next_exon(low_var, starts)

---------------------------------------------------------------------------
(* Entry point "targ_pair": the classifier called on a gene's structure.   *)

\* What the variables of an entry point hold in a behaviour of another one.
ClassifierIdle == variant1 = None /\ variant2 = None /\ targetable = None
TablesIdle     == chrdf = {} /\ gens_hdf = <<>>
ResolverIdle   == position = None /\ sample = None /\ cas_type = None
                  /\ targ_hap = None
GeneIdle       == annots = <<>> /\ coding_positions = {}
                  /\ coding_exon_starts = {} /\ coding_exons = <<>>
RunIdle        == /\ enough_hets = {} /\ targ_pairs_tuple = {}
                  /\ targ_haps = {} /\ finaltargcols = <<>>
                  /\ final_targ = <<>> /\ outfiles = <<>>
                  /\ stored = FALSE
SingleIdle     == /\ args = None /\ targ_df = {} /\ gens = <<>>
                  /\ het_vars_per_ind = <<>>

InitClassifier ==
    /\ program = "targ_pair"
    /\ pc = "start"
    /\ annots \in {<<t>> : t \in {u \in Transcripts :
                                    get_coding_exons(u).n_coding_exons > 0}}
    /\ coding_positions = {}
    /\ coding_exon_starts = {}
    /\ coding_exons = <<>>
    /\ ClassifierIdle
    /\ TablesIdle
    /\ ResolverIdle
    /\ RunIdle
    /\ SingleIdle

\* The gene structure the classifier is given.
LoadStructure ==
    /\ program = "targ_pair"
    /\ pc = "start"
    /\ LET ce == get_coding_exons(get_canonical(annots).transcript)
       IN  /\ coding_positions' = ce.coding_positions
           /\ coding_exon_starts' = ce.coding_exon_starts
           /\ coding_exons' = ce.coding_exons
    /\ pc' = "structure"
    /\ UNCHANGED <<program, single_vars, annots, classifier_vars, table_vars, resolver_vars,
                   run_vars>>

\* One call targ_pair(a, b, coding_positions, coding_exon_starts).
CallTargPair ==
    /\ program = "targ_pair"
    /\ pc \in {"structure", "returned"}
    /\ \E a \in Coords, b \in Coords :
          /\ variant1' = a
          /\ variant2' = b
          /\ targetable' = targ_pair(a, b, coding_positions, coding_exon_starts)
    /\ pc' = "returned"
    /\ UNCHANGED <<program, single_vars, gene_vars, table_vars, resolver_vars, run_vars>>

NextClassifier == LoadStructure \/ CallTargPair

SpecClassifier == InitClassifier /\ [][NextClassifier]_vars

---------------------------------------------------------------------------
(* Claims about the classifier.                                            *)

low  == Min({variant1, variant2})
high == Max({variant1, variant2})
called == program = "targ_pair" /\ pc = "returned"
neither_coding == low \notin coding_positions /\ high \notin coding_positions
starts_after_low == {s \in coding_exon_starts : s > low}

\* C1: targ_pair returns false whenever neither position is coding and no
\* coding exon start is strictly greater than the lower position.
C1_NoNextExonNotTargetable ==
    (called /\ neither_coding /\ starts_after_low = {}) => targetable = FALSE

\* C2: when neither position is coding and some coding exon start is
\* greater than low, targ_pair is true iff high >= the smallest such start.
C2_TargetableIffReachesNextExon ==
    (called /\ neither_coding /\ starts_after_low # {})
        => (targetable = TRUE <=> high >= Min(starts_after_low))

\* C2 witness: a pair lying entirely before the next coding exon start was
\* classified, and so was (elsewhere) one that reaches it.
C2_Witness ==
    /\ called /\ neither_coding /\ starts_after_low # {}
    /\ high < Min(starts_after_low)
    /\ targetable = FALSE

\* C3: if either position is a coding position, targ_pair is true.
C3_CodingPositionTargetable ==
    (called /\ (variant1 \in coding_positions \/ variant2 \in coding_positions))
        => targetable = TRUE

\* C3 witness: a pair whose lower position is coding and whose higher
\* position lies before the next coding exon start, targetable only
\* because of the coding position, was classified.
C3_Witness ==
    /\ called
    /\ low \in coding_positions /\ high \notin coding_positions
    /\ starts_after_low # {} /\ high < Min(starts_after_low)
    /\ targetable = TRUE

\* C4: targ_pair is symmetric in its two positions: a call with the two
\* positions of the previous call swapped returns what that call returned.
C4_Symmetric ==
    [][(called /\ called' /\ variant1' = variant2 /\ variant2' = variant1)
          => targetable' = targetable]_vars

\* C4 witness: a call with the higher position first returned true for a
\* pair that is targetable only by reaching the next coding exon.
C4_Witness ==
    /\ called /\ variant1 > variant2
    /\ neither_coding /\ starts_after_low # {}
    /\ targetable = TRUE

---------------------------------------------------------------------------
(* Haplotype resolver (pair mode).                                         *)

\* CAS_LIST = ['all', 'SaCas9_KKH'].
CAS_LIST == <<"all", "SaCas9_KKH">>

\* The Cas varieties the targetability table has makes_/breaks_/var_near_
\* columns for (a row holds, per kind, the set of varieties whose column is
\* true).
CasColumns == {"SaCas9_KKH", "SpCas9"}

\* Alleles; a row's ref is RefAllele at every position of the model.
Alleles == {"A", "C", "G"}
RefAllele == "A"

\* relevant_columns: the Cas varieties whose makes_, breaks_ and var_near_
\* columns are read (the three returned lists name the same varieties).
relevant_columns(cas) ==
    IF cas = "all" THEN Range(Tail(CAS_LIST)) ELSE {cas}

\* targetable_haplotypes: <<targ_alt_hap, targ_ref_hap>> of the rows
\* targ_data; DataFrame.any().any() is false of an empty selection.
targetable_haplotypes(targ_data, cols) ==
    LET mk == \E r \in targ_data : \E c \in cols : c \in r.makes
        bk == \E r \in targ_data : \E c \in cols : c \in r.breaks
        nr == \E r \in targ_data : \E c \in cols : c \in r.var_near
    IN  <<mk \/ nr, bk \/ nr>>

\* targ_haps_both_alt: both alleles are (different) variants.
targ_haps_both_alt(rel_row_1, rel_row_2, cols) ==
    LET first == targetable_haplotypes(rel_row_1, cols)
    IN  IF first[1] /\ first[2] THEN first
        ELSE LET second == targetable_haplotypes(rel_row_2, cols)
             IN  <<first[1] \/ second[1], first[2] \/ second[2]>>

\* What haplotype_targetability returns: the two booleans, or exit().
Returned(h1, h2) == [targ_hap1 |-> h1, targ_hap2 |-> h2, exit |-> FALSE]
Exited == [targ_hap1 |-> FALSE, targ_hap2 |-> FALSE, exit |-> TRUE]

\* The rows of the genotype table with this index, as the genotypes of the
\* sample (query('index == @position')[sample]).
genotype_rows(pos, smp, roigens_hdf) ==
    IF pos \in DOMAIN roigens_hdf THEN {roigens_hdf[pos][smp]} ELSE {}

\* A slip that would leave the ValueError of .item() uncaught.
haplotype_targetability_uncaught(pos, smp, chrdf_, roigens_hdf, cas) ==
    LET gsel == genotype_rows(pos, smp, roigens_hdf)
        rsel == {r \in chrdf_ : r.pos = pos}
    IN  IF Cardinality(gsel) # 1 \/ Cardinality(rsel) # 1 THEN Exited
        ELSE Returned(FALSE, FALSE)

\* haplotype_targetability: whether each haplotype at this position is
\* targetable in the individual.  Series.item() raises ValueError unless the
\* selection has exactly one element; the function catches it and returns
\* (False, False).
haplotype_targetability(pos, smp, chrdf_, roigens_hdf, cas) ==
    LET gsel == genotype_rows(pos, smp, roigens_hdf)
        rsel == {r \in chrdf_ : r.pos = pos}
    IN  IF Cardinality(gsel) # 1 \/ Cardinality(rsel) # 1
        THEN Returned(FALSE, FALSE)
        ELSE
          LET genotype    == CHOOSE g \in gsel : TRUE
              hap1_allele == genotype[1]
              hap2_allele == genotype[2]
              ref         == (CHOOSE r \in rsel : TRUE).ref
              cols        == relevant_columns(cas)
              row_hap1    == {r \in chrdf_ : r.pos = pos /\ r.alt = hap1_allele}
              row_hap2    == {r \in chrdf_ : r.pos = pos /\ r.alt = hap2_allele}
          IN  IF hap2_allele = ref
              THEN LET t == targetable_haplotypes(row_hap1, cols)
                   IN  Returned(t[1], t[2])
              ELSE IF hap1_allele = ref
              THEN LET t == targetable_haplotypes(row_hap2, cols)
                   IN  Returned(t[2], t[1])
              ELSE IF hap1_allele # ref /\ hap2_allele # ref
              THEN LET t == targ_haps_both_alt(row_hap1, row_hap2, cols)
                   IN  Returned(t[1], t[2])
              ELSE Exited

---------------------------------------------------------------------------
(* Entry point "haplotype_targetability": the resolver called on one       *)
(* position of one sample.                                                 *)

\* The position and the sample of the direct calls.
ThePosition == 1
TheSample == "s1"

\* The rows a targetability table may hold at a position for an alt allele.
RowsAt(pos, alt) ==
    {[pos |-> pos, ref |-> RefAllele, alt |-> alt,
      makes |-> mk, breaks |-> bk, var_near |-> nr] :
        mk \in SUBSET CasColumns, bk \in SUBSET CasColumns,
        nr \in SUBSET CasColumns}

\* The tables of the direct calls: at most one row per alt allele.
ResolverTables ==
    {c \cup g : c \in {{}} \cup {{r} : r \in RowsAt(ThePosition, "C")},
                g \in {{}} \cup {{r} : r \in RowsAt(ThePosition, "G")}}

InitResolver ==
    /\ program = "haplotype_targetability"
    /\ pc = "start"
    /\ GeneIdle
    /\ ClassifierIdle
    /\ chrdf \in ResolverTables
    /\ gens_hdf \in [{ThePosition} -> [{TheSample} -> Alleles \X Alleles]]
    /\ ResolverIdle
    /\ RunIdle
    /\ SingleIdle

\* One call haplotype_targetability(position, sample, chrdf, gens_hdf, cas).
CallResolver ==
    /\ program = "haplotype_targetability"
    /\ pc \in {"start", "returned"}
    /\ \E cas \in Range(CAS_LIST) :
          LET res == haplotype_targetability(ThePosition, TheSample,
                                             chrdf, gens_hdf, cas)
          IN  /\ position' = ThePosition
              /\ sample' = TheSample
              /\ cas_type' = cas
              /\ targ_hap' = res
              /\ pc' = IF res.exit THEN "exited" ELSE "returned"
    /\ UNCHANGED <<program, single_vars, gene_vars, classifier_vars, table_vars, run_vars>>

NextResolver == CallResolver

SpecResolver == InitResolver /\ [][NextResolver]_vars

---------------------------------------------------------------------------
(* Claims about the resolver.                                              *)

resolved == program = "haplotype_targetability" /\ pc # "start"
the_genotype == gens_hdf[position][sample]
the_rows == {r \in chrdf : r.pos = position}
\* The row annotating allele a at the position (the set is empty or single).
row_of(a) == {r \in the_rows : r.alt = a}
\* makes / breaks / nearPam of a row for the nuclease variant of the call.
nuclease == IF cas_type = "all" THEN CAS_LIST[2] ELSE cas_type
makes_v(r)  == nuclease \in r.makes
breaks_v(r) == nuclease \in r.breaks
near_v(r)   == nuclease \in r.var_near

\* Haplotype 1 carries ref and haplotype 2 an annotated alt, or the mirror.
RefAltHap1 == /\ the_genotype[1] = RefAllele /\ the_genotype[2] # RefAllele
              /\ row_of(the_genotype[2]) # {}
RefAltHap2 == /\ the_genotype[2] = RefAllele /\ the_genotype[1] # RefAllele
              /\ row_of(the_genotype[1]) # {}
AltAlt     == /\ the_genotype[1] # RefAllele /\ the_genotype[2] # RefAllele
              /\ the_genotype[1] # the_genotype[2]
              /\ row_of(the_genotype[1]) # {} /\ row_of(the_genotype[2]) # {}
Unresolved == /\ the_genotype[1] # the_genotype[2]
              /\ row_of(the_genotype[1]) = {} /\ row_of(the_genotype[2]) = {}

\* C5: at a position where one haplotype carries ref and the other an
\* annotated alt (further rows for other alts or not), the alt-bearing
\* haplotype is targetable iff the alt's row has makes or nearPam, and the
\* ref-bearing one iff that row has breaks or nearPam.
C5_RefAltResolution ==
    /\ (resolved /\ RefAltHap1) =>
          \A r \in row_of(the_genotype[2]) :
              /\ targ_hap.targ_hap2 = (makes_v(r) \/ near_v(r))
              /\ targ_hap.targ_hap1 = (breaks_v(r) \/ near_v(r))
    /\ (resolved /\ RefAltHap2) =>
          \A r \in row_of(the_genotype[1]) :
              /\ targ_hap.targ_hap1 = (makes_v(r) \/ near_v(r))
              /\ targ_hap.targ_hap2 = (breaks_v(r) \/ near_v(r))

\* C6: in the AltAlt state the resolver returns (t1a OR t1b, t2a OR t2b),
\* (t1a, t2a) the single-row result of haplotype 1's row and (t1b, t2b)
\* that of haplotype 2's row.
C6_AltAltIsOr ==
    (resolved /\ AltAlt) =>
        \A ra \in row_of(the_genotype[1]), rb \in row_of(the_genotype[2]) :
            /\ targ_hap.targ_hap1 = ((makes_v(ra) \/ near_v(ra))
                                        \/ (makes_v(rb) \/ near_v(rb)))
            /\ targ_hap.targ_hap2 = ((breaks_v(ra) \/ near_v(ra))
                                        \/ (breaks_v(rb) \/ near_v(rb)))

\* C7: when neither haplotype allele of a heterozygous position has a
\* matching targetability row, haplotype_targetability returns
\* (false, false) for every Cas variety and does not exit.
C7_UnresolvedNotTargetable ==
    (resolved /\ Unresolved) =>
        /\ targ_hap = Returned(FALSE, FALSE)
        /\ pc = "returned"

\* C7 witness: the resolver returned from an Unresolved position whose
\* table holds a row with true flags for another allele.
C7_Witness ==
    /\ resolved /\ Unresolved /\ pc = "returned"
    /\ \E r \in the_rows : makes_v(r) /\ breaks_v(r)

---------------------------------------------------------------------------
(* Pair mode: main() of ExcisionFinder_filt_by_score.py.                   *)

\* Number of positions of the genotype table of a run (its index is
\* 1..MaxPos).
MaxPos == 2

RunPositions == 1..MaxPos

\* The samples (columns) of the genotype table.
Samples == {"s1", "s2"}

\* The pair filter's hard-coded distance, max <= min + 10000.
PairWindow == 10000

\* The flags a row of the targetability table may have in a run: one kind
\* true for one Cas variety.
RunFlags ==
    {[makes |-> {"SaCas9_KKH"}, breaks |-> {}, var_near |-> {}],
     [makes |-> {}, breaks |-> {"SaCas9_KKH"}, var_near |-> {}],
     [makes |-> {}, breaks |-> {}, var_near |-> {"SaCas9_KKH"}],
     [makes |-> {"SpCas9"}, breaks |-> {}, var_near |-> {}]}

\* The table whose row at position q, if t[q] is not <<>>, has the alt
\* allele t[q][1] and the flags t[q][2].
TableOf(t) ==
    {[pos |-> q, ref |-> RefAllele, alt |-> t[q][1],
      makes |-> t[q][2].makes, breaks |-> t[q][2].breaks,
      var_near |-> t[q][2].var_near] : q \in {x \in DOMAIN t : t[x] # <<>>}}

\* The targetability tables a pair-mode run may load: per position no row
\* or one row for the alt allele C.
PairTables ==
    {TableOf(t) : t \in [RunPositions -> {<<>>} \cup ({"C"} \X RunFlags)]}

\* The genotype tables a pair-mode run may load.
PairGenotypes == {<<"A", "A">>, <<"A", "C">>, <<"C", "A">>}
PairGenotypeTables == [RunPositions -> [Samples -> PairGenotypes]]

\* A transcript of one exon [s, s]; its coding sequence is the exon, or
\* lies after it.
OneExon(s, coding) ==
    [exonStarts |-> <<s>>, exonEnds |-> <<s>>,
     cdsStart |-> IF coding THEN s ELSE s + 1,
     cdsEnd   |-> IF coding THEN s ELSE s + 1]

\* The annotation tables of a run: no row for the gene, a transcript with
\* no coding exon, or one coding exon before, at or after the positions.
PairAnnots ==
    {<<>>, <<OneExon(0, FALSE)>>}
        \cup {<<OneExon(s, TRUE)>> : s \in 0..(MaxPos + 1)}

\* het: whether a genotype hap1|hap2 is heterozygous.
het(genotype) == genotype[1] # genotype[2]

\* has_targ_pair: whether some targetable pair lies within het_positions.
has_targ_pair(het_positions, targ_pairs) ==
    \E x \in targ_pairs : {x[1], x[2]} \subseteq het_positions

\* A slip that would pool the positions targetable on either haplotype.
has_targ_pos_pair_any_hap(smp, cas, targ_pairs, targ_haps_df) ==
    has_targ_pair({r.pos : r \in {q \in targ_haps_df :
                       q.sample = smp /\ (cas \in q.hap1 \/ cas \in q.hap2)}},
                  targ_pairs)

\* has_targ_pos_pair_same_hap: whether the sample has a targetable pair of
\* hets on the same haplotype.
has_targ_pos_pair_same_hap(smp, cas, targ_pairs, targ_haps_df) ==
    LET sample_hets_hap1 ==
            {r.pos : r \in {q \in targ_haps_df : cas \in q.hap1 /\ q.sample = smp}}
        sample_hets_hap2 ==
            {r.pos : r \in {q \in targ_haps_df : cas \in q.hap2 /\ q.sample = smp}}
    IN  IF has_targ_pair(sample_hets_hap1, targ_pairs) THEN TRUE
        ELSE IF has_targ_pair(sample_hets_hap2, targ_pairs) THEN TRUE
        ELSE FALSE

\* A slip that would keep the samples with one het position.
pair_enough_hets_one(table) ==
    {ind \in Samples :
        Cardinality({q \in DOMAIN table : het(table[q][ind])}) >= 1}

\* enough_hets of pair mode: the samples with at least two het positions.
pair_enough_hets(table) ==
    {ind \in Samples :
        Cardinality({q \in DOMAIN table : het(table[q][ind])}) >= 2}

\* A slip that would leave out the pairs exactly 10000 apart.
variant_combos_strict(variants, positions, starts) ==
    {c \in variants \X variants :
        /\ c[1] # c[2]
        /\ Max({c[1], c[2]}) < Min({c[1], c[2]}) + PairWindow
        /\ targ_pair(c[1], c[2], positions, starts)}

\* The variant combinations kept by main: ordered pairs of distinct
\* positions of the genotype table, at most PairWindow apart, that
\* targ_pair accepts.
variant_combos(variants, positions, starts) ==
    {c \in variants \X variants :
        /\ c[1] # c[2]
        /\ Max({c[1], c[2]}) <= Min({c[1], c[2]}) + PairWindow
        /\ targ_pair(c[1], c[2], positions, starts)}

\* A slip that would take all() of the targ_<cas> columns.
all_columns(row, cols) == \A i \in DOMAIN cols : row.targ[cols[i]]

\* final_targ[finaltargcols].any(axis=1) of one row.
any_columns(row, cols) == \E i \in DOMAIN cols : row.targ[cols[i]]

\* The gene of the run, as written to the side files.
TheGene == "gene"

\* fout.write(gene + '\n') on a side file.
written(file) == [file |-> file, line |-> TheGene]

\* A slip that would exit without writing the gene to the side file.
Dropout_unrecorded(file) ==
    /\ outfiles' = outfiles
    /\ pc' = "exit"

\* Appends the gene to a side file and exits.
Dropout(file) ==
    /\ outfiles' = Append(outfiles, written(file))
    /\ pc' = "exit"

InitPair ==
    /\ program = "pair"
    /\ pc = "start"
    /\ annots \in PairAnnots
    /\ coding_positions = {}
    /\ coding_exon_starts = {}
    /\ coding_exons = <<>>
    /\ ClassifierIdle
    /\ TablesIdle
    /\ ResolverIdle
    /\ RunIdle
    /\ SingleIdle

\* FIRST DROPOUT POINT: get_canonical.
P_GetCanonical ==
    /\ program = "pair" /\ pc = "start"
    /\ IF get_canonical(annots).raised = "IndexError"
       THEN Dropout("no_transcript.txt")
       ELSE pc' = "canonical" /\ UNCHANGED outfiles
    /\ UNCHANGED <<program, single_vars, gene_vars, classifier_vars, table_vars,
                   resolver_vars, enough_hets, targ_pairs_tuple, targ_haps,
                   finaltargcols, final_targ, stored>>

\* SECOND DROPOUT POINT: get_coding_exons.
P_GetCodingExons ==
    /\ program = "pair" /\ pc = "canonical"
    /\ LET ce == get_coding_exons(get_canonical(annots).transcript)
       IN  IF ce.n_coding_exons = 0
           THEN /\ Dropout("no_coding_exons.txt")
                /\ UNCHANGED <<coding_positions, coding_exon_starts,
                            coding_exons>>
           ELSE /\ coding_positions' = ce.coding_positions
                /\ coding_exon_starts' = ce.coding_exon_starts
                /\ coding_exons' = ce.coding_exons
                /\ pc' = "exons"
                /\ UNCHANGED outfiles
    /\ UNCHANGED <<program, single_vars, annots, classifier_vars, table_vars,
                   resolver_vars, enough_hets, targ_pairs_tuple, targ_haps,
                   finaltargcols, final_targ, stored>>

\* THIRD DROPOUT POINT: the targetability table of the region is loaded.
P_LoadTargetability ==
    /\ program = "pair" /\ pc = "exons"
    /\ \E table \in PairTables :
          /\ chrdf' = table
          /\ IF table = {}
             THEN Dropout("not_enough_hets.txt")
             ELSE pc' = "targ_loaded" /\ UNCHANGED outfiles
    /\ UNCHANGED <<program, single_vars, gene_vars, classifier_vars, gens_hdf,
                   resolver_vars, enough_hets, targ_pairs_tuple, targ_haps,
                   finaltargcols, final_targ, stored>>

\* FOURTH DROPOUT POINT: the genotypes of the region are loaded.
P_LoadGenotypes ==
    /\ program = "pair" /\ pc = "targ_loaded"
    /\ \E table \in PairGenotypeTables :
          LET enough == pair_enough_hets(table)
          IN  /\ gens_hdf' = table
              /\ enough_hets' = enough
              /\ IF enough = {}
                 THEN Dropout("not_enough_hets.txt")
                 ELSE pc' = "gens_loaded" /\ UNCHANGED outfiles
    /\ UNCHANGED <<program, single_vars, gene_vars, classifier_vars, chrdf,
                   resolver_vars, targ_pairs_tuple, targ_haps,
                   finaltargcols, final_targ, stored>>

\* The variant combinations, the eligible variants and the long-form table
\* of the samples' eligible hets.
P_VariantCombos ==
    /\ program = "pair" /\ pc = "gens_loaded"
    /\ LET variants == DOMAIN gens_hdf
           combos   == variant_combos(variants, coding_positions,
                                      coding_exon_starts)
           eligible_variants == {c[1] : c \in combos} \cup {c[2] : c \in combos}
           rows == {[sample |-> ind, pos |-> q, hap1 |-> {}, hap2 |-> {}] :
                      ind \in enough_hets,
                      q \in {x \in variants : x \in eligible_variants}}
           het_rows == {r \in rows : het(gens_hdf[r.pos][r.sample])}
       IN  /\ targ_pairs_tuple' = combos
           /\ targ_haps' = het_rows
           /\ IF het_rows = {}
              THEN /\ Dropout("no_targetable_inds.txt")
                   /\ UNCHANGED final_targ
              ELSE /\ final_targ' = [ind \in enough_hets |->
                                       [targ |-> <<>>, targ_all |-> None]]
                   /\ pc' = "eval"
                   /\ UNCHANGED outfiles
    /\ UNCHANGED <<program, single_vars, gene_vars, classifier_vars, table_vars,
                   resolver_vars, enough_hets, finaltargcols, stored>>

\* One pass of `for cas in CAS_LIST[1:]`: the hap1_/hap2_ columns of
\* targ_haps and the targ_<cas> column of final_targ.
P_EvalCas ==
    /\ program = "pair" /\ pc = "eval"
    /\ Len(finaltargcols) < Len(Tail(CAS_LIST))
    /\ LET cas == Tail(CAS_LIST)[Len(finaltargcols) + 1]
           res(r) == haplotype_targetability(r.pos, r.sample, chrdf,
                                             gens_hdf, cas)
           evaluated ==
               {[sample |-> r.sample, pos |-> r.pos,
                 hap1 |-> IF res(r).targ_hap1 THEN r.hap1 \cup {cas} ELSE r.hap1,
                 hap2 |-> IF res(r).targ_hap2 THEN r.hap2 \cup {cas} ELSE r.hap2] :
                    r \in targ_haps}
       IN  IF \E r \in targ_haps : res(r).exit
           THEN /\ pc' = "exit"
                /\ UNCHANGED <<targ_haps, final_targ, finaltargcols>>
           ELSE /\ targ_haps' = evaluated
                /\ final_targ' =
                     [ind \in DOMAIN final_targ |->
                        [final_targ[ind] EXCEPT !.targ =
                            (cas :> has_targ_pos_pair_same_hap(
                                        ind, cas, targ_pairs_tuple, evaluated))
                              @@ @]]
                /\ finaltargcols' = Append(finaltargcols, cas)
                /\ pc' = "eval"
    /\ UNCHANGED <<program, single_vars, gene_vars, classifier_vars, table_vars,
                   resolver_vars, enough_hets, targ_pairs_tuple, outfiles,
                   stored>>

\* targ_all and the two HDF5 stores.
P_Store ==
    /\ program = "pair" /\ pc = "eval"
    /\ Len(finaltargcols) = Len(Tail(CAS_LIST))
    /\ final_targ' = [ind \in DOMAIN final_targ |->
                        [final_targ[ind] EXCEPT !.targ_all =
                            any_columns(final_targ[ind], finaltargcols)]]
    /\ stored' = TRUE
    /\ pc' = "done"
    /\ UNCHANGED <<program, single_vars, gene_vars, classifier_vars, table_vars,
                   resolver_vars, enough_hets, targ_pairs_tuple, targ_haps,
                   finaltargcols, outfiles>>

NextPair ==
    \/ P_GetCanonical
    \/ P_GetCodingExons
    \/ P_LoadTargetability
    \/ P_LoadGenotypes
    \/ P_VariantCombos
    \/ P_EvalCas
    \/ P_Store

SpecPair == InitPair /\ [][NextPair]_vars

---------------------------------------------------------------------------
(* Claims about pair mode.                                                 *)

\* The heterozygous positions of a sample.
het_positions_of(ind) == {q \in DOMAIN gens_hdf : het(gens_hdf[q][ind])}

\* Whether the output marks the sample targetable for the Cas variety.
marked(ind, cas) ==
    /\ ind \in DOMAIN final_targ
    /\ cas \in DOMAIN final_targ[ind].targ
    /\ final_targ[ind].targ[cas]

\* The haplotypes (1, 2) the resolver marks targetable at a position.
resolver_haps(q, ind, cas) ==
    LET res == haplotype_targetability(q, ind, chrdf, gens_hdf, cas)
    IN  {h \in {1, 2} : IF h = 1 THEN res.targ_hap1 ELSE res.targ_hap2}

\* Whether the sample has a targetable pair of hets with a common
\* targetable haplotype.
same_hap_pair(ind, cas) ==
    \E c \in targ_pairs_tuple :
        /\ c[1] \in het_positions_of(ind)
        /\ c[2] \in het_positions_of(ind)
        /\ resolver_haps(c[1], ind, cas) \cap resolver_haps(c[2], ind, cas) # {}

C12_FewerThanTwoHetsNeverReported ==
    program = "pair" =>
        \A ind \in Samples :
            Cardinality(het_positions_of(ind)) < 2 =>
                /\ ind \notin DOMAIN final_targ
                /\ \A r \in targ_haps : r.sample # ind
                /\ \A cas \in CasColumns : ~marked(ind, cas)

\* C12 witness: a run stored its result with another sample marked
\* targetable while a sample with exactly one het position, one of a
\* targetable pair, is left out.
C12_Witness ==
    /\ program = "pair" /\ pc = "done" /\ stored
    /\ \E ind \in Samples, oth \in Samples :
          /\ Cardinality(het_positions_of(ind)) = 1
          /\ \E c \in targ_pairs_tuple : c[1] \in het_positions_of(ind)
          /\ ind \notin DOMAIN final_targ
          /\ \E cas \in CasColumns : marked(oth, cas)

---------------------------------------------------------------------------
(* Single-cut mode: main() of single_cut_targ_wtc_hg19.py.                 *)

\* Gene.__init__: the exons of the gene's row, the first with its start
\* raised to the coding start, else the last with its end lowered to the
\* coding end, else unchanged.
Gene_coding_exons(info) ==
    LET counterweight == Min({Len(info.exonStarts), Len(info.exonEnds)})
        coding_start  == info.cdsStart
        coding_end    == info.cdsEnd
    IN  [counter \in 1..counterweight |->
            IF counter = 1
            THEN <<Max({coding_start, info.exonStarts[counter]}),
                   info.exonEnds[counter]>>
            ELSE IF counter = counterweight
            THEN <<info.exonStarts[counter],
                   Min({coding_end, info.exonEnds[counter]})>>
            ELSE <<info.exonStarts[counter], info.exonEnds[counter]>>]

\* Gene.get_coding_positions_and_starts (the positions as a set: they are
\* only tested for membership).
get_coding_positions_and_starts(exons) ==
    [coding_positions |->
        UNION {exons[i][1]..exons[i][2] : i \in DOMAIN exons},
     coding_exon_starts |-> {exons[i][1] : i \in DOMAIN exons}]

\* A row of the annotation table with an empty exon list.
ZeroExons == [exonStarts |-> <<>>, exonEnds |-> <<>>, cdsStart |-> 0, cdsEnd |-> 0]

\* The annotation rows of a single-cut run: no exon, one exon outside the
\* coding sequence, or one coding exon at one of the positions.
SingleAnnots ==
    {<<ZeroExons>>, <<OneExon(0, FALSE)>>}
        \cup {<<OneExon(s, TRUE)>> : s \in RunPositions}

\* The targetability tables a single-cut run may load: per position no row
\* or one row, for the alt allele C or G.
SingleTables ==
    {TableOf(t) : t \in [RunPositions ->
        {<<>>} \cup ({"C"} \X RunFlags)
               \cup ({"G"} \X {f \in RunFlags : "SaCas9_KKH" \in f.makes})]}

\* The het rows `bcftools view -g het` may give: the rows of a genotype
\* table in which some sample is heterozygous.
SingleGenotypes == {<<"A", "A">>, <<"A", "C">>}
SingleGenotypeTables ==
    {[q \in {x \in RunPositions : \E ind \in Samples : het(g[x][ind])} |-> g[q]] :
        g \in [RunPositions -> [Samples -> SingleGenotypes]]}

\* The command lines of a run: -s or not, and <cas_list>.
SingleArgs ==
    [strict : BOOLEAN,
     cas_list : {<<"all">> \o l : l \in {<<"SaCas9_KKH">>,
                                          <<"SaCas9_KKH", "SpCas9">>}}]

\* A slip that would keep every sample of the BCF.
single_enough_hets_all(table) == Samples

\* enough_hets of single-cut mode: the samples with at least one het
\* position.
single_enough_hets(table) ==
    {ind \in Samples :
        Cardinality({q \in DOMAIN table : het(table[q][ind])}) >= 1}

\* A slip that would count every het position, coding or not.
coding_het_vars_unfiltered(gens_, ind, positions) ==
    {q \in DOMAIN gens_ : het(gens_[q][ind])}

\* gens.pos[het_gens[ind]][gens.pos.isin(coding_positions)].
coding_het_vars(gens_, ind, positions) ==
    {q \in DOMAIN gens_ : het(gens_[q][ind]) /\ q \in positions}

\* targ_vars_cas: the positions of the rows with a true flag for cas.
targ_vars_cas(targ_df_, cas, strict) ==
    {r.pos : r \in {q \in targ_df_ :
        IF strict
        THEN cas \in q.makes \/ cas \in q.breaks
        ELSE cas \in q.var_near \/ cas \in q.makes \/ cas \in q.breaks}}

InitSingle ==
    /\ program = "single"
    /\ pc = "start"
    /\ annots \in SingleAnnots
    /\ coding_positions = {}
    /\ coding_exon_starts = {}
    /\ coding_exons = <<>>
    /\ ClassifierIdle
    /\ TablesIdle
    /\ ResolverIdle
    /\ RunIdle
    /\ args \in SingleArgs
    /\ targ_df = {}
    /\ gens = <<>>
    /\ het_vars_per_ind = <<>>

\* MyGene = Gene(...), and the dropout of a gene without coding exons.
S_Gene ==
    /\ program = "single" /\ pc = "start"
    /\ LET exons == Gene_coding_exons(annots[1])
           ps == get_coding_positions_and_starts(exons)
       IN  /\ coding_exons' = exons
           /\ coding_positions' = ps.coding_positions
           /\ coding_exon_starts' = ps.coding_exon_starts
           /\ IF Len(exons) < 1
              THEN Dropout("no_coding_exons.txt")
              ELSE pc' = "gene" /\ UNCHANGED outfiles
    /\ UNCHANGED <<program, single_vars, annots, classifier_vars, table_vars,
                   resolver_vars, enough_hets, targ_pairs_tuple, targ_haps,
                   finaltargcols, final_targ, stored>>

\* The targetability table of the region is loaded.
S_LoadTargetability ==
    /\ program = "single" /\ pc = "gene"
    /\ \E table \in SingleTables :
          /\ targ_df' = table
          /\ IF table = {}
             THEN Dropout("not_enough_hets.txt")
             ELSE pc' = "targ_loaded" /\ UNCHANGED outfiles
    /\ UNCHANGED <<program, args, gens, het_vars_per_ind, gene_vars,
                   classifier_vars, table_vars, resolver_vars, enough_hets,
                   targ_pairs_tuple, targ_haps, finaltargcols, final_targ,
                   stored>>

\* The het rows of the BCF are loaded; enough_hets, het_vars_per_ind and
\* the sample column of final_targ.
S_LoadGenotypes ==
    /\ program = "single" /\ pc = "targ_loaded"
    /\ \E table \in SingleGenotypeTables :
          LET enough == single_enough_hets(table)
          IN  /\ gens' = table
              /\ enough_hets' = enough
              /\ IF enough = {}
                 THEN /\ Dropout("not_enough_hets.txt")
                      /\ UNCHANGED <<het_vars_per_ind, final_targ>>
                 ELSE /\ het_vars_per_ind' =
                            [ind \in enough |->
                                coding_het_vars(table, ind, coding_positions)]
                      /\ final_targ' = [ind \in enough |->
                                          [targ |-> <<>>, targ_all |-> None]]
                      /\ pc' = "eval"
                      /\ UNCHANGED outfiles
    /\ UNCHANGED <<program, args, targ_df, gene_vars, classifier_vars,
                   table_vars, resolver_vars, targ_pairs_tuple, targ_haps,
                   finaltargcols, stored>>

\* One pass of `for cas in cas_list[1:]`.
S_EvalCas ==
    /\ program = "single" /\ pc = "eval"
    /\ Len(finaltargcols) < Len(Tail(args.cas_list))
    /\ LET cas == Tail(args.cas_list)[Len(finaltargcols) + 1]
           targ_vars == targ_vars_cas(targ_df, cas, args.strict)
       IN  /\ final_targ' =
                [ind \in DOMAIN final_targ |->
                    [final_targ[ind] EXCEPT !.targ =
                        (cas :> (targ_vars \cap het_vars_per_ind[ind] # {})) @@ @]]
           /\ finaltargcols' = Append(finaltargcols, cas)
    /\ UNCHANGED <<program, pc, single_vars, gene_vars, classifier_vars,
                   table_vars, resolver_vars, enough_hets, targ_pairs_tuple,
                   targ_haps, outfiles, stored>>

\* targ_all, genes_evaluated.txt and the HDF5 file of the gene.
S_Store ==
    /\ program = "single" /\ pc = "eval"
    /\ Len(finaltargcols) = Len(Tail(args.cas_list))
    /\ final_targ' = [ind \in DOMAIN final_targ |->
                        [final_targ[ind] EXCEPT !.targ_all =
                            any_columns(final_targ[ind], finaltargcols)]]
    /\ outfiles' = Append(outfiles, written("genes_evaluated.txt"))
    /\ stored' = TRUE
    /\ pc' = "done"
    /\ UNCHANGED <<program, single_vars, gene_vars, classifier_vars,
                   table_vars, resolver_vars, enough_hets, targ_pairs_tuple,
                   targ_haps, finaltargcols>>

NextSingle ==
    \/ S_Gene
    \/ S_LoadTargetability
    \/ S_LoadGenotypes
    \/ S_EvalCas
    \/ S_Store

SpecSingle == InitSingle /\ [][NextSingle]_vars

\* Either program.
InitModes == InitPair \/ InitSingle
NextModes == NextPair \/ NextSingle
SpecModes == InitModes /\ [][NextModes]_vars

---------------------------------------------------------------------------
(* Claims about single-cut mode and about both modes.                      *)

single_done == program = "single" /\ pc = "done"

\* The heterozygous positions of a sample in the BCF rows.
single_hets(ind) == {q \in DOMAIN gens : het(gens[q][ind])}

\* Whether a row has a true flag for the Cas variety under the strictness
\* of the run.
flagged(r, cas) ==
    \/ cas \in r.makes
    \/ cas \in r.breaks
    \/ (~args.strict /\ cas \in r.var_near)

\* C9 as stated: in single-cut mode a sample is marked targetable for v iff
\* one of its heterozygous positions resolves, for the alleles the sample
\* carries there, to a targetable haplotype for v.
C9_SingleCutAnyHet ==
    single_done =>
        \A ind \in Samples : \A cas \in Range(Tail(args.cas_list)) :
            marked(ind, cas) <=>
                \E q \in single_hets(ind) : \E r \in targ_df :
                    /\ r.pos = q
                    /\ r.alt \in {gens[q][ind][1], gens[q][ind][2]}
                    /\ flagged(r, cas)

\* C9 as amended: in single-cut mode a sample is marked targetable for v
\* iff one of its heterozygous positions is a coding position and the
\* targetability table has a row at that position, for whatever alt
\* allele, with makes or breaks (or, unless strict, var_near) true for v.
C9_SingleCutCodingHet ==
    single_done =>
        \A ind \in Samples : \A cas \in Range(Tail(args.cas_list)) :
            marked(ind, cas) <=>
                \E q \in single_hets(ind) \cap coding_positions :
                    \E r \in targ_df : r.pos = q /\ flagged(r, cas)

\* C9 witness: a run ended with a sample marked targetable for a Cas
\* variety and another not, the latter heterozygous at a non-coding
\* position whose row, for the allele it carries, is flagged.
C9_Witness ==
    /\ single_done
    /\ \E ind \in Samples, oth \in Samples, cas \in Range(Tail(args.cas_list)) :
          /\ marked(ind, cas)
          /\ oth \in DOMAIN final_targ /\ ~marked(oth, cas)
          /\ \E q \in single_hets(oth) \ coding_positions : \E r \in targ_df :
                r.pos = q /\ r.alt = gens[q][oth][2] /\ flagged(r, cas)

\* The Cas varieties a run evaluates.
evaluated_cas ==
    IF program = "pair" THEN Range(Tail(CAS_LIST)) ELSE Range(Tail(args.cas_list))

\* C10: in every output record targ_all is the OR of the sample's
\* targ_<cas> flags over the evaluated Cas varieties, in both modes.
C10_TargAllIsOr ==
    (program \in {"pair", "single"} /\ pc = "done") =>
        \A ind \in DOMAIN final_targ :
            /\ DOMAIN final_targ[ind].targ = evaluated_cas
            /\ final_targ[ind].targ_all =
                  (\E cas \in evaluated_cas : final_targ[ind].targ[cas])

\* C10 witness: a single-cut run of two Cas varieties ended with a sample
\* targetable for one of them only, and targ_all true.
C10_Witness ==
    /\ single_done
    /\ \E ind \in DOMAIN final_targ :
          /\ final_targ[ind].targ_all = TRUE
          /\ \E c1 \in evaluated_cas, c2 \in evaluated_cas :
                final_targ[ind].targ[c1] /\ ~final_targ[ind].targ[c2]

---------------------------------------------------------------------------
(* The variant combination generator of pair mode at genomic distances:   *)
(* main() of ExcisionFinder_filt_by_score.py from the <window> argument   *)
(* to targ_pairs_tuple.                                                    *)

\* The positions the genotype file may hold, around PairWindow apart.
GenPositions == {1, 3, 5003, PairWindow + 1, PairWindow + 2, 15001}

\* The <window> arguments of a run.
GenWindows == {0, 5000, 20000}

\* The exons a transcript of the generator runs may have.
GenExons == <<<<2, 3>>, <<5003, 5004>>, <<15001, 15001>>>>

\* A row of the annotation table with the exons ex (ascending): the
\* transcript spans them and its coding sequence is cds.
GenTranscript(ex, cds) ==
    [exonStarts |-> [i \in DOMAIN ex |-> ex[i][1]],
     exonEnds   |-> [i \in DOMAIN ex |-> ex[i][2]],
     cdsStart   |-> cds[1],
     cdsEnd     |-> cds[2],
     txStart    |-> ex[1][1],
     txEnd      |-> ex[Len(ex)][2]]

\* The annotation tables of the generator runs: one, two or three of the
\* exons, all coding or only the first.
GenAnnots ==
    LET lists == {<<GenExons[1]>>, <<GenExons[2]>>,
                  <<GenExons[1], GenExons[2]>>,
                  <<GenExons[1], GenExons[3]>>,
                  <<GenExons[1], GenExons[2], GenExons[3]>>}
    IN  {<<GenTranscript(ex, <<ex[1][1], ex[Len(ex)][2]>>)>> : ex \in lists}
            \cup {<<GenTranscript(ex, <<ex[1][1], ex[1][2]>>)>> : ex \in lists}

\* genestart - window and genestop + window of main.
genestart(t, window) == t.txStart - window
genestop(t, window) == t.txEnd + window

InitGenerator ==
    /\ program = "generator"
    /\ pc = "start"
    /\ annots \in GenAnnots
    /\ coding_positions = {}
    /\ coding_exon_starts = {}
    /\ coding_exons = <<>>
    /\ ClassifierIdle
    /\ TablesIdle
    /\ ResolverIdle
    /\ RunIdle
    /\ args \in [window : GenWindows]
    /\ targ_df = {}
    /\ gens = <<>>
    /\ het_vars_per_ind = <<>>

\* get_coding_exons of the canonical transcript.
G_GetCodingExons ==
    /\ program = "generator" /\ pc = "start"
    /\ LET ce == get_coding_exons(get_canonical(annots).transcript)
       IN  /\ coding_positions' = ce.coding_positions
           /\ coding_exon_starts' = ce.coding_exon_starts
           /\ coding_exons' = ce.coding_exons
    /\ pc' = "exons"
    /\ UNCHANGED <<program, single_vars, annots, classifier_vars, table_vars,
                   resolver_vars, run_vars>>

\* The genotype rows between genestart - window and genestop + window.
G_LoadGenotypes ==
    /\ program = "generator" /\ pc = "exons"
    /\ \E file \in SUBSET GenPositions :
          LET t == get_canonical(annots).transcript
              region == {q \in file : /\ q <= genestop(t, args.window)
                                      /\ q >= genestart(t, args.window)}
          IN  gens_hdf' = [q \in region |-> [ind \in Samples |-> <<"A", "C">>]]
    /\ pc' = "gens_loaded"
    /\ UNCHANGED <<program, single_vars, gene_vars, classifier_vars, chrdf,
                   resolver_vars, run_vars>>

\* The loop over itertools.product(variants, variants) and
\* targ_pairs_tuple.
G_VariantCombos ==
    /\ program = "generator" /\ pc = "gens_loaded"
    /\ targ_pairs_tuple' = variant_combos(DOMAIN gens_hdf, coding_positions,
                                          coding_exon_starts)
    /\ pc' = "combos"
    /\ UNCHANGED <<program, single_vars, gene_vars, classifier_vars, table_vars,
                   resolver_vars, enough_hets, targ_haps, finaltargcols,
                   final_targ, outfiles, stored>>

NextGenerator ==
    \/ G_GetCodingExons
    \/ G_LoadGenotypes
    \/ G_VariantCombos

SpecGenerator == InitGenerator /\ [][NextGenerator]_vars

\* The pairs are generated; the candidate positions.
generated == program = "generator" /\ pc = "combos"
candidates == DOMAIN gens_hdf

\* Whether two positions are at most w apart.
within(a, b, w) == a - b <= w /\ b - a <= w

\* C11 as stated: the generator yields exactly the pairs (a,b) of candidate
\* positions with a # b, |a-b| <= the configured window and
\* targetablePair(a,b) true; no pair further apart than the configured
\* window is produced.
C11_PairsWithinConfiguredWindow ==
    generated =>
        \A a \in candidates, b \in candidates :
            <<a, b>> \in targ_pairs_tuple <=>
                /\ a # b
                /\ within(a, b, args.window)
                /\ targ_pair(a, b, coding_positions, coding_exon_starts)

\* C11 as amended: the generator yields exactly the pairs (a,b) of
\* candidate positions with a # b, |a-b| <= 10000 and targ_pair(a,b) true,
\* whatever the <window> argument, which only widens the region the
\* candidate positions are loaded from; nothing else is yielded.
C11_PairsWithinFixedWindow ==
    generated =>
        /\ targ_pairs_tuple \subseteq candidates \X candidates
        /\ \A a \in candidates, b \in candidates :
              <<a, b>> \in targ_pairs_tuple <=>
                  /\ a # b
                  /\ within(a, b, 10000)
                  /\ targ_pair(a, b, coding_positions, coding_exon_starts)
        /\ \A q \in candidates :
              /\ q >= get_canonical(annots).transcript.txStart - args.window
              /\ q <= get_canonical(annots).transcript.txEnd + args.window

\* C11 witness: a pair exactly 10000 apart was yielded under a smaller
\* <window>, and a pair that targ_pair accepts was left out for being
\* further apart.
C11_Witness ==
    /\ generated
    /\ args.window < 10000
    /\ \E c \in targ_pairs_tuple : c[2] - c[1] = 10000
    /\ \E a \in candidates, b \in candidates :
          /\ b - a > 10000
          /\ targ_pair(a, b, coding_positions, coding_exon_starts)
          /\ <<a, b>> \notin targ_pairs_tuple

---------------------------------------------------------------------------
(* The gene structure of both programs: Gene.__init__ and                  *)
(* Gene.get_coding_positions_and_starts of single_cut_targ_wtc_hg19.py,    *)
(* get_coding_exons of ExcisionFinder_filt_by_score.py.                    *)

\* The rows of the annotation table whose coding sequence lies inside the
\* transcript, as refGene has them.
StructureTranscripts ==
    {t \in Transcripts :
        /\ t.exonStarts[1] <= t.cdsStart
        /\ t.cdsEnd <= t.exonEnds[Len(t.exonEnds)]}

InitStructure ==
    /\ program \in {"Gene", "get_coding_exons"}
    /\ pc = "start"
    /\ annots \in {<<t>> : t \in StructureTranscripts}
    /\ coding_positions = {}
    /\ coding_exon_starts = {}
    /\ coding_exons = <<>>
    /\ ClassifierIdle
    /\ TablesIdle
    /\ ResolverIdle
    /\ RunIdle
    /\ SingleIdle

\* MyGene = Gene(...) and MyGene.get_coding_positions_and_starts().
St_Gene ==
    /\ program = "Gene" /\ pc = "start"
    /\ LET exons == Gene_coding_exons(annots[1])
           ps == get_coding_positions_and_starts(exons)
       IN  /\ coding_exons' = exons
           /\ coding_positions' = ps.coding_positions
           /\ coding_exon_starts' = ps.coding_exon_starts
    /\ pc' = "structure"
    /\ UNCHANGED <<program, single_vars, annots, classifier_vars, table_vars,
                   resolver_vars, run_vars>>

\* get_coding_exons(geneid, annots, gene, out_dir).
St_GetCodingExons ==
    /\ program = "get_coding_exons" /\ pc = "start"
    /\ LET ce == get_coding_exons(get_canonical(annots).transcript)
       IN  IF ce.n_coding_exons = 0
           THEN /\ Dropout("no_coding_exons.txt")
                /\ UNCHANGED <<coding_positions, coding_exon_starts,
                               coding_exons>>
           ELSE /\ coding_positions' = ce.coding_positions
                /\ coding_exon_starts' = ce.coding_exon_starts
                /\ coding_exons' = ce.coding_exons
                /\ pc' = "structure"
                /\ UNCHANGED outfiles
    /\ UNCHANGED <<program, single_vars, annots, classifier_vars, table_vars,
                   resolver_vars, enough_hets, targ_pairs_tuple, targ_haps,
                   finaltargcols, final_targ, stored>>

NextStructure ==
    \/ St_Gene
    \/ St_GetCodingExons

SpecStructure == InitStructure /\ [][NextStructure]_vars

\* The structure is built; the row it was built from.
structured == pc = "structure"
the_row == annots[1]

\* C13: for every transcript with at least one exon, one exon included,
\* codingExons has the first exon's start replaced by
\* max(exonStart, cdsStart), the last exon's end replaced by
\* min(exonEnd, cdsEnd), and every interior exon unchanged.
C13_FirstAndLastExonClipped ==
    (program = "Gene" /\ structured) =>
        LET n == Len(the_row.exonStarts)
        IN  /\ Len(coding_exons) = n
            /\ \A i \in 1..n :
                  /\ coding_exons[i][1] =
                        IF i = 1
                        THEN Max({the_row.exonStarts[i], the_row.cdsStart})
                        ELSE the_row.exonStarts[i]
                  /\ coding_exons[i][2] =
                        IF i = n
                        THEN Min({the_row.exonEnds[i], the_row.cdsEnd})
                        ELSE the_row.exonEnds[i]

\* Sum of (end - start + 1) over a list of exons.
RECURSIVE span_sum(_)
span_sum(exons) ==
    IF exons = <<>> THEN 0
    ELSE (Head(exons)[2] - Head(exons)[1] + 1) + span_sum(Tail(exons))

\* C14: the number of coding positions equals the sum of
\* (end - start + 1) over codingExons, and every coding exon start is one
\* of the coding positions.
C14_CodingPositionsCount ==
    structured =>
        /\ Cardinality(coding_positions) = span_sum(coding_exons)
        /\ \A i \in DOMAIN coding_exons :
              coding_exons[i][1] \in coding_positions

---------------------------------------------------------------------------
(* Claims about the dropouts of both programs.                             *)

\* A run of either program on a gene that has a row in the table.
run_on_gene == program \in {"pair", "single"} /\ annots # <<>>

\* Whether some exon of the row overlaps its coding sequence.
overlaps_cds(t) ==
    \E i \in DOMAIN t.exonStarts :
        t.exonStarts[i] <= t.cdsEnd /\ t.cdsStart <= t.exonEnds[i]

\* The structure step of the program is behind.
past_structure ==
    \/ program = "pair" /\ pc \notin {"start", "canonical"}
    \/ program = "single" /\ pc # "start"

\* C15: if no exon of the transcript overlaps the coding sequence, the run
\* ends in the NoCodingExons outcome (the gene is recorded in
\* no_coding_exons.txt) and no targetability result is produced, in pair
\* mode and in single-cut mode.
C15_NoCodingExonsDropout ==
    (run_on_gene /\ ~overlaps_cds(annots[1])) =>
        /\ ~stored
        /\ final_targ = <<>>
        /\ past_structure =>
              pc = "exit" /\ outfiles = <<written("no_coding_exons.txt")>>

\* The minimum number of het positions of the program, and the het
\* positions of a sample in its genotype table.
min_hets == IF program = "pair" THEN 2 ELSE 1
hets_of(ind) ==
    IF program = "pair" THEN het_positions_of(ind) ELSE single_hets(ind)

\* A sample with fewer het positions than the minimum.
insufficient(ind) == Cardinality(hets_of(ind)) < min_hets

---------------------------------------------------------------------------
(* Claims about strictness.                                                *)

\* The rows of the single-cut table at the coding het positions of a
\* sample.
coding_het_rows(ind) ==
    {r \in targ_df : r.pos \in single_hets(ind) \cap coding_positions}

\* A row whose only true flag for the Cas variety is var_near.
near_only(r, cas) ==
    cas \in r.var_near /\ cas \notin r.makes /\ cas \notin r.breaks

\* The single-cut program and the direct calls of the pair-mode resolver.
InitStrictness == InitSingle \/ InitResolver
NextStrictness == NextSingle \/ NextResolver
SpecStrictness == InitStrictness /\ [][NextStrictness]_vars

\* C17: strictness decides whether var_near takes part.  With -s, a sample
\* whose rows have var_near as their only true flag for v is not targetable
\* for v; without -s a row with var_near true for v makes the sample
\* targetable for v; the resolver of pair mode, which has no -s, marks both
\* haplotypes targetable for v when the row of a carried alt allele has
\* var_near true for v.
C17_StrictnessDecidesNear ==
    /\ single_done =>
          \A ind \in DOMAIN final_targ : \A cas \in evaluated_cas :
              /\ (/\ args.strict
                  /\ \A r \in coding_het_rows(ind) :
                        near_only(r, cas) \/ ~flagged(r, cas))
                    => ~marked(ind, cas)
              /\ (/\ ~args.strict
                  /\ \E r \in coding_het_rows(ind) : cas \in r.var_near)
                    => marked(ind, cas)
    /\ (resolved /\ (RefAltHap1 \/ RefAltHap2 \/ AltAlt)) =>
          ((\E r \in the_rows :
                /\ r.alt \in {the_genotype[1], the_genotype[2]}
                /\ near_v(r))
             => targ_hap = Returned(TRUE, TRUE))

---------------------------------------------------------------------------
(* The order of the dropouts of a pair-mode run.                           *)

\* A pair-mode run whose every enabled step is eventually taken: main()
\* runs to its end.
FairPair == SpecPair /\ WF_vars(NextPair)

\* The run is over.
terminal == pc \in {"exit", "done"}

\* The dropout conditions of a pair-mode run, on its inputs.
no_transcript == annots = <<>>
no_coding_exons ==
    \A i \in DOMAIN annots[1].exonStarts :
        \/ annots[1].exonStarts[i] < annots[1].cdsStart
        \/ annots[1].exonStarts[i] > annots[1].cdsEnd
no_annotated_variants == chrdf = {}
no_sample_with_two_hets ==
    \A ind \in Samples : Cardinality(het_positions_of(ind)) < 2
no_eligible_het ==
    \A ind \in Samples :
        Cardinality(het_positions_of(ind)) >= 2 =>
            \A q \in het_positions_of(ind) :
                \A c \in targ_pairs_tuple : q # c[1] /\ q # c[2]

\* The side file of the first dropout condition that holds, in the order
\* of main, or None.
first_dropout ==
    IF no_transcript THEN "no_transcript.txt"
    ELSE IF no_coding_exons THEN "no_coding_exons.txt"
    ELSE IF no_annotated_variants THEN "not_enough_hets.txt"
    ELSE IF no_sample_with_two_hets THEN "not_enough_hets.txt"
    ELSE IF no_eligible_het THEN "no_targetable_inds.txt"
    ELSE None

\* The outcome of a run: nothing written before its end; at its end the
\* record of the first condition that holds and no result, or the result
\* and no record.
one_outcome ==
    /\ ~terminal => (outfiles = <<>> /\ ~stored)
    /\ terminal =>
          IF first_dropout = None
          THEN pc = "done" /\ stored /\ outfiles = <<>>
          ELSE /\ pc = "exit" /\ ~stored
               /\ outfiles = <<written(first_dropout)>>

\* C18: a pair-mode run evaluates its dropout conditions in the order
\* no-transcript, no-coding-exons, no-annotated-variants,
\* no-sample-with-two-hets, no-eligible-het-position and stops at the
\* first that holds; every run ends, in exactly one terminal outcome (one
\* dropout record or the stored result), and the result is stored only if
\* no dropout condition held.
C18_DropoutOrder == [](one_outcome) /\ <>(terminal)

\* C18 witness: a run ended at the no-sample-with-two-hets dropout with
\* annotated variants loaded, the later no-eligible-het-position condition
\* holding as well.
C18_Witness ==
    /\ program = "pair" /\ pc = "exit"
    /\ ~no_transcript /\ ~no_coding_exons /\ ~no_annotated_variants
    /\ gens_hdf # <<>>
    /\ no_sample_with_two_hets /\ no_eligible_het
    /\ outfiles = <<written("not_enough_hets.txt")>>

===========================================================================
